---- MODULE Spec2Model ----
(***************************************************************************)
(* django-denormalized: DenormalizedTracker (denormalized/tracker.py).     *)
(*                                                                         *)
(* A tracker keeps an aggregate field of a parent row (a COUNT of, or a    *)
(* SUM over, its eligible children) up to date by translating each child   *)
(* lifecycle event into relative "field = F(field) + delta" updates.       *)
(*                                                                         *)
(*   SpecTrack  track_changes as a function: every input, one call.        *)
(*   Spec       one actor creating, saving and deleting children, each     *)
(*              operation applying the adjustments it obtained.            *)
(*   SpecSum    Spec for a SUM tracker whose children are all eligible.    *)
(*   SpecToggle a child saved twice, its eligibility flipped and restored. *)
(*   SpecConc   actors holding stale parent copies, one child operation    *)
(*              each, their steps interleaved.                             *)
(***************************************************************************)
EXTENDS Integers, Sequences, FiniteSets

VARIABLES tracker, groups, db, value, initial, last, steps, pc, mem, pend, emitted

vars == <<tracker, groups, db, value, initial, last, steps, pc, mem, pend, emitted>>

(* ------------------------------ bounds --------------------------------- *)

\* Parent primary keys are 1..MaxParentId.
MaxParentId == 2

\* Values of the SUM source attribute are 0..MaxPoints.
MaxPoints == 2

\* Child primary keys are 1..MaxChildId.
MaxChildId == 2

\* Number of child operations in a run of Spec.
MaxSteps == 3

\* Largest initial value of a tracked field in SpecToggle and SpecConc.
MaxInitial == 1

(* ------------------------------ values --------------------------------- *)

\* The primary key standing for "no parent" (a NULL foreign key).
Null == 0

ParentIds == 1..MaxParentId

ChildIds == 1..MaxChildId

Points == 0..MaxPoints

\* Python's None where a model instance is expected.
None == [pk |-> Null, val |-> 0]

\* The aggregate expressions a tracker can be built with; Avg stands for any
\* aggregate that is neither Count nor Sum.
Aggregates == {"Count", "Sum", "Avg"}

\* The callbacks: the constructor's default (always true) and the test
\* application's "member is active".
Callbacks == {"true", "active"}

\* A child instance in memory: its foreign key, the attribute the callback
\* reads, the SUM source attribute. pending = TRUE: the source attribute
\* holds the unresolved expression F(points) + points instead of a number.
Instances == [fk : {Null} \cup ParentIds, active : BOOLEAN, points : Points, pending : BOOLEAN]

\* The None placeholder _update_value returns.
NoneEntry == [none |-> TRUE, pk |-> Null, val |-> 0, rel |-> TRUE, delta |-> 0]

(* --------------------------- tracker.py -------------------------------- *)

\* getattr(instance, self.foreign_key): the related object, None for a NULL
\* key, ObjectDoesNotExist for a key whose row is gone. memory gives the value
\* of the tracked field the resolved object carries in this process.
get_related(instance, existing, memory) ==
    IF instance.fk = Null THEN [raised |-> FALSE, obj |-> None]
    ELSE IF instance.fk \notin existing THEN [raised |-> TRUE, obj |-> None]
    ELSE [raised |-> FALSE, obj |-> [pk |-> instance.fk, val |-> memory[instance.fk]]]

\* try: getattr(...) except ObjectDoesNotExist: None (the exception is lost).
foreign_object_nocatch(instance, existing, memory) ==
    get_related(instance, existing, memory)

\* try: getattr(...) except ObjectDoesNotExist: None
foreign_object(instance, existing, memory) ==
    LET r == get_related(instance, existing, memory)
    IN  IF r.raised THEN [raised |-> FALSE, obj |-> None] ELSE r

\* self.callback(instance)
callback(t, instance) ==
    IF t.callback = "active" THEN instance.active ELSE TRUE

\* Python's int(bool), as used by is_suitable - old_suitable.
AsInt(b) == IF b THEN 1 ELSE 0

\* Object identity instead of Model.__eq__: two resolutions of one key
\* are different objects, None is None.
same_object_identity(a, b) == a = None /\ b = None

\* Model.__eq__ on two related objects (or None): same primary key.
same_object(a, b) == a.pk = b.pk

\* _get_delta reading the attribute for Count as well.
_get_delta_attr(t, instance, stored) ==
    IF t.aggregate \in {"Count", "Sum"}
    THEN [raised |-> FALSE, value |-> IF instance.pending THEN stored ELSE instance.points]
    ELSE [raised |-> TRUE, value |-> 0]

\* _get_delta answering 0 for an aggregate it does not know.
_get_delta_silent(t, instance, stored) ==
    IF t.aggregate = "Count" THEN [raised |-> FALSE, value |-> 1]
    ELSE IF t.aggregate = "Sum"
    THEN [raised |-> FALSE, value |-> IF instance.pending THEN stored ELSE instance.points]
    ELSE [raised |-> FALSE, value |-> 0]

\* _get_delta using the attribute as it is in memory, without the reload.
_get_delta_noreload(t, instance, stored) ==
    IF t.aggregate = "Count" THEN [raised |-> FALSE, value |-> 1]
    ELSE IF t.aggregate = "Sum" THEN [raised |-> FALSE, value |-> instance.points]
    ELSE [raised |-> TRUE, value |-> 0]

\* _get_delta: 1 for Count; for Sum the source attribute, re-read from the
\* stored row when it is an unresolved expression; NotImplementedError else.
_get_delta(t, instance, stored) ==
    IF t.aggregate = "Count" THEN [raised |-> FALSE, value |-> 1]
    ELSE IF t.aggregate = "Sum"
    THEN [raised |-> FALSE, value |-> IF instance.pending THEN stored ELSE instance.points]
    ELSE [raised |-> TRUE, value |-> 0]

\* instance.refresh_from_db(fields=(arg.name,)): the source attribute is
\* replaced by the stored value.
refresh_from_db(instance, stored) ==
    [instance EXCEPT !.points = stored, !.pending = FALSE]

\* The reload done for every aggregate.
_get_delta_instance_any(t, instance, stored) ==
    IF instance.pending THEN refresh_from_db(instance, stored) ELSE instance

\* The instance as _get_delta leaves it: a Sum tracker reloads a source
\* attribute that is an unresolved expression.
_get_delta_instance(t, instance, stored) ==
    IF t.aggregate = "Sum" /\ instance.pending
    THEN refresh_from_db(instance, stored)
    ELSE instance

\* _update_value that forgets the sign.
_update_value_nosign(fo, delta, sign) ==
    IF delta = 0 \/ fo = None THEN NoneEntry
    ELSE [none |-> FALSE, pk |-> fo.pk, val |-> fo.val, rel |-> TRUE, delta |-> delta]

\* _update_value that adds to the value the in-memory parent holds.
_update_value_absolute(fo, delta, sign) ==
    IF delta = 0 \/ fo = None THEN NoneEntry
    ELSE [none |-> FALSE, pk |-> fo.pk, val |-> fo.val, rel |-> FALSE, delta |-> delta * sign]

\* _update_value: None for a zero delta or a missing parent, else the pair
\* (foreign_object, {field: F(field) + delta * sign}). rel = TRUE says the
\* new value is relative to the stored one (an F expression).
_update_value(fo, delta, sign) ==
    IF delta = 0 \/ fo = None THEN NoneEntry
    ELSE [none |-> FALSE, pk |-> fo.pk, val |-> fo.val, rel |-> TRUE, delta |-> delta * sign]

\* filter(None, changed)
FilterNone(changed) == SelectSeq(changed, LAMBDA e : ~e.none)

\* The result of a call: the exception that left it ("" for none) and the
\* returned sequence.
Raise(name) == [error |-> name, changes |-> <<>>]

Return(changes) == [error |-> "", changes |-> changes]

\* The update path adding the whole current delta when nothing flipped.
track_update_nodiff(t, fo, is_suitable, delta, old_instance, existing, memory, stored) ==
    LET old_d == _get_delta(t, old_instance, stored)
        old_suitable == callback(t, old_instance)
        old_r == foreign_object(old_instance, existing, memory)
        old_fo == old_r.obj
        sign == AsInt(is_suitable) - AsInt(old_suitable)
    IN  IF old_d.raised THEN Raise("NotImplementedError")
        ELSE IF old_r.raised THEN Raise("DoesNotExist")
        ELSE IF same_object(fo, old_fo) /\ sign # 0
        THEN Return(FilterNone(<<_update_value(fo, delta, sign)>>))
        ELSE IF ~same_object(fo, old_fo)
        THEN Return(FilterNone(<<_update_value(old_fo, old_d.value, -1),
                                 _update_value(fo, delta, 1)>>))
        ELSE Return(FilterNone(<<_update_value(fo, delta, 1)>>))

\* The update path counting every eligibility flip as a gain.
track_update_gain(t, fo, is_suitable, delta, old_instance, existing, memory, stored) ==
    LET old_d == _get_delta(t, old_instance, stored)
        old_suitable == callback(t, old_instance)
        old_r == foreign_object(old_instance, existing, memory)
        old_fo == old_r.obj
        sign == AsInt(is_suitable) - AsInt(old_suitable)
    IN  IF old_d.raised THEN Raise("NotImplementedError")
        ELSE IF old_r.raised THEN Raise("DoesNotExist")
        ELSE IF same_object(fo, old_fo) /\ sign # 0
        THEN Return(FilterNone(<<_update_value(fo, delta, 1)>>))
        ELSE IF ~same_object(fo, old_fo)
        THEN Return(FilterNone(<<_update_value(old_fo, old_d.value, -1),
                                 _update_value(fo, delta, 1)>>))
        ELSE Return(FilterNone(<<_update_value(fo, delta - old_d.value, 1)>>))

\* The update path adding the two deltas when nothing flipped.
track_update_plus(t, fo, is_suitable, delta, old_instance, existing, memory, stored) ==
    LET old_d == _get_delta(t, old_instance, stored)
        old_suitable == callback(t, old_instance)
        old_r == foreign_object(old_instance, existing, memory)
        old_fo == old_r.obj
        sign == AsInt(is_suitable) - AsInt(old_suitable)
    IN  IF old_d.raised THEN Raise("NotImplementedError")
        ELSE IF old_r.raised THEN Raise("DoesNotExist")
        ELSE IF same_object(fo, old_fo) /\ sign # 0
        THEN Return(FilterNone(<<_update_value(fo, delta, sign)>>))
        ELSE IF ~same_object(fo, old_fo)
        THEN Return(FilterNone(<<_update_value(old_fo, old_d.value, -1),
                                 _update_value(fo, delta, 1)>>))
        ELSE Return(FilterNone(<<_update_value(fo, delta + old_d.value, 1)>>))

\* Lines 37-57: the update path, taken also by a create or delete event
\* whose current state is not suitable.
track_update(t, fo, is_suitable, delta, old_instance, existing, memory, stored) ==
    LET old_d == _get_delta(t, old_instance, stored)
        old_suitable == callback(t, old_instance)
        old_r == foreign_object(old_instance, existing, memory)
        old_fo == old_r.obj
        sign == AsInt(is_suitable) - AsInt(old_suitable)
    IN  IF old_d.raised THEN Raise("NotImplementedError")
        ELSE IF old_r.raised THEN Raise("DoesNotExist")
        ELSE IF same_object(fo, old_fo) /\ sign # 0
        THEN Return(FilterNone(<<_update_value(fo, delta, sign)>>))
        ELSE IF ~same_object(fo, old_fo)
        THEN Return(FilterNone(<<_update_value(old_fo, old_d.value, -1),
                                 _update_value(fo, delta, 1)>>))
        ELSE Return(FilterNone(<<_update_value(fo, delta - old_d.value, 1)>>))

\* track_changes(instance, created, deleted), old_instance being the
\* snapshot stored on the instance.
track_changes(t, instance, old_instance, created, deleted, existing, memory, stored) ==
    LET r == foreign_object(instance, existing, memory)
        fo == r.obj
        is_suitable == callback(t, instance)
        d == _get_delta(t, instance, stored)
    IN  IF r.raised THEN Raise("DoesNotExist")
        ELSE IF d.raised THEN Raise("NotImplementedError")
        ELSE IF created /\ is_suitable
        THEN Return(<<_update_value(fo, d.value, 1)>>)
        ELSE IF deleted /\ is_suitable
        THEN Return(<<_update_value(fo, d.value, -1)>>)
        ELSE track_update(t, fo, is_suitable, d.value, old_instance, existing, memory, stored)

\* The two instances as a call leaves them: line 32 passes the instance to
\* _get_delta, line 38 the snapshot when the update path is reached.
instances_after(t, instance, old_instance, created, deleted, stored) ==
    LET is_suitable == callback(t, instance)
        d == _get_delta(t, instance, stored)
        returned_early == (created /\ is_suitable) \/ (deleted /\ is_suitable)
    IN  [cur |-> _get_delta_instance(t, instance, stored),
         prev |-> IF d.raised \/ returned_early THEN old_instance
                  ELSE _get_delta_instance(t, old_instance, stored)]

(* --------------------------- shared state ------------------------------ *)

Trackers == [aggregate : Aggregates, callback : Callbacks]

\* A stored child row; exists = FALSE: no such row.
NoRow == [exists |-> FALSE, fk |-> Null, active |-> FALSE, points |-> 0]

RowOf(instance) ==
    [exists |-> TRUE, fk |-> instance.fk, active |-> instance.active, points |-> instance.points]

\* The instance loaded from a stored row: every attribute a concrete value.
InstanceOf(row) ==
    [fk |-> row.fk, active |-> row.active, points |-> row.points, pending |-> FALSE]

\* The instances of a call not made yet.
NoAfter == [cur |-> InstanceOf(NoRow), prev |-> InstanceOf(NoRow)]

NoCall ==
    [called |-> FALSE, event |-> "none", cur |-> InstanceOf(NoRow), prev |-> InstanceOf(NoRow),
     stored |-> 0, result |-> Return(<<>>), after |-> NoAfter]

Created(event) == event = "create"

Deleted(event) == event = "delete"

(* ----------------------------- SpecTrack ------------------------------- *)

\* The snapshot is a persisted state: its attributes are concrete values.
\* The stored source attribute is the instance's own value unless that
\* value is an unresolved expression.
TrackInputs ==
    {c \in [called : {FALSE}, event : {"create", "delete", "update"},
            cur : Instances, prev : {i \in Instances : ~i.pending},
            stored : Points, result : {Return(<<>>)}, after : {NoAfter}] :
        ~c.cur.pending => c.stored = c.cur.points}

\* The sets of existing parents: all of them, or all but one.
GroupSets == {ParentIds} \cup {ParentIds \ {g} : g \in ParentIds}

ZeroMemory == [p \in ParentIds |-> 0]

InitTrack ==
    /\ tracker \in Trackers
    /\ groups \in GroupSets
    /\ last \in TrackInputs
    /\ db = [c \in ChildIds |-> NoRow]
    /\ value = ZeroMemory
    /\ initial = ZeroMemory
    /\ steps = 0
    /\ pc = [a \in ChildIds |-> "idle"]
    /\ mem = [a \in ChildIds |-> ZeroMemory]
    /\ pend = [a \in ChildIds |-> <<>>]
    /\ emitted = ZeroMemory

Call ==
    /\ ~last.called
    /\ last' = [last EXCEPT !.called = TRUE,
                            !.result = track_changes(tracker, last.cur, last.prev,
                                                     Created(last.event), Deleted(last.event),
                                                     groups, value, last.stored),
                            !.after = instances_after(tracker, last.cur, last.prev,
                                                      Created(last.event), Deleted(last.event),
                                                      last.stored)]
    /\ UNCHANGED <<tracker, groups, db, value, initial, steps, pc, mem, pend, emitted>>

NextTrack == Call

SpecTrack == InitTrack /\ [][NextTrack]_vars

(* -------------------- the hooks around the tracker --------------------- *)

\* The write of one returned entry: UPDATE parent SET field = <expression>,
\* evaluated by the storage against the stored value. A None entry is skipped.
apply_entry(stored_value, e) ==
    IF e.none THEN stored_value
    ELSE [stored_value EXCEPT ![e.pk] = IF e.rel THEN @ + e.delta ELSE e.val + e.delta]

RECURSIVE apply_changes(_, _)
\* The entries written in the order returned.
apply_changes(stored_value, changes) ==
    IF changes = <<>> THEN stored_value
    ELSE apply_changes(apply_entry(stored_value, Head(changes)), Tail(changes))

\* The states a child is given: every attribute a concrete value. A tracker
\* with the default callback never reads active, which then stays TRUE.
OpInstances ==
    {i \in Instances : ~i.pending /\ (tracker.callback = "true" => i.active)}

Record(event, cur, prev, result) ==
    [called |-> TRUE, event |-> event, cur |-> cur, prev |-> prev,
     stored |-> cur.points, result |-> result,
     after |-> instances_after(tracker, cur, prev, Created(event), Deleted(event), cur.points)]

\* The tracker's answer to Model.objects.create(**inst): the snapshot of a
\* fresh instance is the state it was built with.
CreateResult(inst, memory) ==
    track_changes(tracker, inst, inst, TRUE, FALSE, groups, memory, inst.points)

\* The tracker's answer to instance.save(): the snapshot is the previously
\* persisted state.
SaveResult(c, inst, memory) ==
    track_changes(tracker, inst, InstanceOf(db[c]), FALSE, FALSE, groups, memory, inst.points)

\* The tracker's answer to instance.delete() of an unmodified instance.
DeleteResult(c, memory) ==
    track_changes(tracker, InstanceOf(db[c]), InstanceOf(db[c]), FALSE, TRUE,
                  groups, memory, db[c].points)

\* The row is inserted, post-save runs the tracker, the entries are written.
CreateOp(c, inst) ==
    /\ ~db[c].exists
    /\ CreateResult(inst, value).error = ""
    /\ db' = [db EXCEPT ![c] = RowOf(inst)]
    /\ value' = apply_changes(value, CreateResult(inst, value).changes)

\* The row is written, post-save runs the tracker, the entries are written.
SaveOp(c, inst) ==
    /\ db[c].exists
    /\ SaveResult(c, inst, value).error = ""
    /\ db' = [db EXCEPT ![c] = RowOf(inst)]
    /\ value' = apply_changes(value, SaveResult(c, inst, value).changes)

\* The tracker runs, the entries are written, the row is removed.
DeleteOp(c) ==
    /\ db[c].exists
    /\ DeleteResult(c, value).error = ""
    /\ db' = [db EXCEPT ![c] = NoRow]
    /\ value' = apply_changes(value, DeleteResult(c, value).changes)

(* -------------------------------- Spec --------------------------------- *)

Init ==
    /\ tracker \in [aggregate : {"Count", "Sum"}, callback : Callbacks]
    /\ groups = ParentIds
    /\ db = [c \in ChildIds |-> NoRow]
    /\ value = ZeroMemory
    /\ initial = ZeroMemory
    /\ last = NoCall
    /\ steps = 0
    /\ pc = [a \in ChildIds |-> "idle"]
    /\ mem = [a \in ChildIds |-> ZeroMemory]
    /\ pend = [a \in ChildIds |-> <<>>]
    /\ emitted = ZeroMemory

Step ==
    /\ steps < MaxSteps
    /\ steps' = steps + 1
    /\ UNCHANGED <<tracker, groups, initial, last, pc, mem, pend, emitted>>

Create == \E c \in ChildIds, inst \in OpInstances : CreateOp(c, inst) /\ Step

Save == \E c \in ChildIds, inst \in OpInstances : SaveOp(c, inst) /\ Step

Delete == \E c \in ChildIds : DeleteOp(c) /\ Step

Next == Create \/ Save \/ Delete

Spec == Init /\ [][Next]_vars

(* ------------------------------- SpecSum ------------------------------- *)

\* Spec for the SUM tracker with the default callback.
InitSum == Init /\ tracker = [aggregate |-> "Sum", callback |-> "true"]

SpecSum == InitSum /\ [][Next]_vars

(* ----------------------------- SpecToggle ------------------------------ *)

\* The saved child: the one with the highest key.
Toggled == MaxChildId

InitToggle ==
    /\ tracker = [aggregate |-> "Count", callback |-> "active"]
    /\ groups = ParentIds
    /\ \E inst \in OpInstances :
        /\ inst.fk # Null
        /\ db = [c \in ChildIds |-> IF c = Toggled THEN RowOf(inst) ELSE NoRow]
    /\ value \in [ParentIds -> 0..MaxInitial]
    /\ initial = value
    /\ last = NoCall
    /\ steps = 0
    /\ pc = [a \in ChildIds |-> "idle"]
    /\ mem = [a \in ChildIds |-> ZeroMemory]
    /\ pend = [a \in ChildIds |-> <<>>]
    /\ emitted = ZeroMemory

Flipped == [InstanceOf(db[Toggled]) EXCEPT !.active = ~@]

\* member.active = not member.active; member.save()
Toggle ==
    /\ steps < 2
    /\ SaveOp(Toggled, Flipped)
    /\ last' = Record("update", Flipped, InstanceOf(db[Toggled]),
                      SaveResult(Toggled, Flipped, value))
    /\ steps' = steps + 1
    /\ UNCHANGED <<tracker, groups, initial, pc, mem, pend, emitted>>

NextToggle == Toggle

SpecToggle == InitToggle /\ [][NextToggle]_vars

(* ------------------------------ SpecConc ------------------------------- *)

\* Actor a works on child a.
Actors == ChildIds

\* The parent every actor's child belongs to: the one with the highest key.
Shared == MaxParentId

\* The states an actor gives its child: under the shared parent, the source
\* attribute 0 or the largest value (0 for COUNT, which never reads it).
ConcInstances ==
    {i \in OpInstances :
        /\ i.fk = Shared
        /\ i.points \in {0, MaxPoints}
        /\ tracker.aggregate = "Count" => i.points = 0}

RECURSIVE SumUpTo(_, _)
SumUpTo(f, n) == IF n = 0 THEN 0 ELSE f[n] + SumUpTo(f, n - 1)

\* What row contributes to the aggregate of parent p under tracker t.
Contribution(t, row, p) ==
    IF row.exists /\ row.fk = p /\ callback(t, row)
    THEN (IF t.aggregate = "Count" THEN 1 ELSE row.points)
    ELSE 0

\* The recompute scan: COUNT, or SUM of the source attribute, over the
\* eligible children of p.
Recompute(t, rows, p) ==
    SumUpTo([c \in ChildIds |-> Contribution(t, rows[c], p)], MaxChildId)

\* Each child is absent or stored; the tracked fields are up to date.
InitConc ==
    /\ tracker \in [aggregate : {"Count", "Sum"}, callback : Callbacks]
    /\ groups = ParentIds
    /\ db \in [ChildIds -> {NoRow} \cup {RowOf(i) : i \in ConcInstances}]
    /\ value = [p \in ParentIds |-> Recompute(tracker, db, p)]
    /\ initial = value
    /\ last = NoCall
    /\ steps = 0
    /\ pc = [a \in Actors |-> "idle"]
    /\ mem = [a \in Actors |-> ZeroMemory]
    /\ pend = [a \in Actors |-> <<>>]
    /\ emitted = ZeroMemory

RECURSIVE sum_deltas(_, _)
\* The deltas the entries carry for parent p, added up.
sum_deltas(changes, p) ==
    IF changes = <<>> THEN 0
    ELSE (IF ~Head(changes).none /\ Head(changes).pk = p THEN Head(changes).delta ELSE 0)
         + sum_deltas(Tail(changes), p)

\* The actor reads the parents into its memory.
Load(a) ==
    /\ pc[a] = "idle"
    /\ mem' = [mem EXCEPT ![a] = value]
    /\ pc' = [pc EXCEPT ![a] = "loaded"]
    /\ UNCHANGED <<tracker, groups, db, value, initial, last, steps, pend, emitted>>

\* The actor's child operation up to the tracker's answer: the related
\* objects are the copies the actor holds, the entries wait to be written.
Mutate(a, result, row) ==
    /\ pc[a] = "loaded"
    /\ result.error = ""
    /\ db' = [db EXCEPT ![a] = row]
    /\ pend' = [pend EXCEPT ![a] = FilterNone(result.changes)]
    /\ emitted' = [p \in ParentIds |-> emitted[p] + sum_deltas(result.changes, p)]
    /\ pc' = [pc EXCEPT ![a] = "tracked"]
    /\ steps' = steps + 1
    /\ UNCHANGED <<tracker, groups, value, initial, last, mem>>

ConcCreate(a) ==
    \E inst \in ConcInstances :
        ~db[a].exists /\ Mutate(a, CreateResult(inst, mem[a]), RowOf(inst))

ConcSave(a) ==
    \E inst \in ConcInstances :
        db[a].exists /\ Mutate(a, SaveResult(a, inst, mem[a]), RowOf(inst))

ConcDelete(a) ==
    db[a].exists /\ Mutate(a, DeleteResult(a, mem[a]), NoRow)

\* One atomic UPDATE statement of the actor.
ApplyNext(a) ==
    /\ pc[a] = "tracked"
    /\ pend[a] # <<>>
    /\ value' = apply_entry(value, Head(pend[a]))
    /\ pend' = [pend EXCEPT ![a] = Tail(@)]
    /\ UNCHANGED <<tracker, groups, db, initial, last, steps, pc, mem, emitted>>

\* The actor has written everything its operation asked for.
Done(a) == pc[a] = "tracked" /\ pend[a] = <<>>

NextConc ==
    \E a \in Actors :
        \/ Load(a)
        \/ ConcCreate(a)
        \/ ConcSave(a)
        \/ ConcDelete(a)
        \/ ApplyNext(a)

SpecConc == InitConc /\ [][NextConc]_vars

(* ------------------- what the claims speak about ----------------------- *)

\* The state is eligible for the tracker (the callback, restated).
Eligible(i) == tracker.callback = "true" \/ i.active

\* The parent a state resolves to: Null for a NULL key or a missing row.
ParentOf(i) == IF i.fk \in groups THEN i.fk ELSE Null

\* The key of the state points to a row that does not exist.
Dangling(i) == i.fk # Null /\ i.fk \notin groups

\* delta(state): 1 for COUNT, the source attribute's value for SUM.
DeltaOf(i) ==
    IF tracker.aggregate = "Count" THEN 1
    ELSE IF i.pending THEN last.stored ELSE i.points

Supported == tracker.aggregate \in {"Count", "Sum"}

\* The adjustment "field of parent p increased by d".
Adjust(p, d) == [none |-> FALSE, pk |-> p, val |-> value[p], rel |-> TRUE, delta |-> d]

\* The call returned an adjustment of d against parent p.
Emits(p, d) ==
    \E k \in DOMAIN last.result.changes :
        LET e == last.result.changes[k]
        IN  ~e.none /\ e.pk = p /\ e.delta = d

\* The call returned some adjustment against parent p.
Targets(p) ==
    \E k \in DOMAIN last.result.changes :
        ~last.result.changes[k].none /\ last.result.changes[k].pk = p

Returned == last.called /\ last.result.error = ""

\* C3: on an update whose parent changed, the old parent is decremented by
\* delta(previous) iff the previous state was eligible (parent non-null,
\* delta non-zero), the new parent is incremented by delta(current) iff the
\* current state is eligible (parent non-null, delta non-zero), and an
\* ineligible side produces no adjustment.
C3_ReparentRespectsEligibility ==
    (Returned /\ last.event = "update" /\ Supported
        /\ ParentOf(last.cur) # ParentOf(last.prev))
    => /\ Emits(ParentOf(last.prev), -DeltaOf(last.prev))
            <=> (Eligible(last.prev) /\ ParentOf(last.prev) # Null /\ DeltaOf(last.prev) # 0)
       /\ Emits(ParentOf(last.cur), DeltaOf(last.cur))
            <=> (Eligible(last.cur) /\ ParentOf(last.cur) # Null /\ DeltaOf(last.cur) # 0)
       /\ ~Eligible(last.prev) => ~Targets(ParentOf(last.prev))
       /\ ~Eligible(last.cur) => ~Targets(ParentOf(last.cur))

\* C4: a create event with an eligible current state, an existing parent
\* and a non-zero delta returns exactly one adjustment: the parent's field
\* increased by delta(current), 1 for COUNT and the source value for SUM.
C4_CreateEmitsIncrement ==
    (last.called /\ last.event = "create" /\ Supported /\ Eligible(last.cur)
        /\ ParentOf(last.cur) # Null /\ DeltaOf(last.cur) # 0)
    => last.result = Return(<<Adjust(last.cur.fk, DeltaOf(last.cur))>>)

C4_Witness ==
    /\ last.called /\ last.event = "create"
    /\ tracker = [aggregate |-> "Sum", callback |-> "active"]
    /\ last.cur.active /\ last.cur.fk \in groups /\ ~last.cur.pending
    /\ last.cur.points = MaxPoints
    /\ last.result.changes = <<Adjust(last.cur.fk, MaxPoints)>>

\* C5: a delete event with an eligible current state, an existing parent
\* and a non-zero delta returns exactly one adjustment: the parent's field
\* decreased by delta(current).
C5_DeleteEmitsDecrement ==
    (last.called /\ last.event = "delete" /\ Supported /\ Eligible(last.cur)
        /\ ParentOf(last.cur) # Null /\ DeltaOf(last.cur) # 0)
    => last.result = Return(<<Adjust(last.cur.fk, -DeltaOf(last.cur))>>)

C5_Witness ==
    /\ last.called /\ last.event = "delete"
    /\ tracker = [aggregate |-> "Sum", callback |-> "active"]
    /\ last.cur.active /\ last.cur.fk \in groups /\ ~last.cur.pending
    /\ last.cur.points = MaxPoints
    /\ last.result.changes = <<Adjust(last.cur.fk, -MaxPoints)>>

\* C8: whatever the event and the input, every entry of the returned
\* sequence is an adjustment with a non-null parent and a non-zero delta;
\* no None placeholder is returned.
C8_OnlyMeaningfulAdjustments ==
    Returned =>
        \A k \in DOMAIN last.result.changes :
            LET e == last.result.changes[k]
            IN  ~e.none /\ e.pk # Null /\ e.delta # 0

\* C9: when resolving the parent of the current state or of the snapshot
\* raises "does not exist", the call does not fail with it, returns no
\* adjustment against the missing parent, and returns what it returns for
\* the same input with that key NULL; for every event kind.
C9_MissingParentIsNoParent ==
    (last.called /\ (Dangling(last.cur) \/ Dangling(last.prev)))
    => /\ last.result.error # "DoesNotExist"
       /\ \A p \in ParentIds \ groups : ~Targets(p)
       /\ last.result = track_changes(tracker,
                            [last.cur EXCEPT !.fk = ParentOf(last.cur)],
                            [last.prev EXCEPT !.fk = ParentOf(last.prev)],
                            Created(last.event), Deleted(last.event),
                            groups, value, last.stored)

\* A delete collected while the parent row is already gone.
C9_Witness ==
    /\ last.called /\ last.event = "delete" /\ Supported
    /\ Dangling(last.cur) /\ Eligible(last.cur)
    /\ last.result = Return(<<NoneEntry>>)

\* C10: an update moving an eligible child from parent P to no parent
\* returns exactly one adjustment, P decreased by delta(previous); from no
\* parent to P exactly one, P increased by delta(current); a create of any
\* child with no parent returns no adjustment against any parent.
C10_NullMoveOneAdjustment ==
    (Returned /\ Supported)
    => /\ (last.event = "update" /\ Eligible(last.cur) /\ Eligible(last.prev)
            /\ last.prev.fk \in groups /\ last.cur.fk = Null)
          => last.result.changes = <<Adjust(last.prev.fk, -DeltaOf(last.prev))>>
       /\ (last.event = "update" /\ Eligible(last.cur) /\ Eligible(last.prev)
            /\ last.prev.fk = Null /\ last.cur.fk \in groups)
          => last.result.changes = <<Adjust(last.cur.fk, DeltaOf(last.cur))>>
       /\ (last.event = "create" /\ last.cur.fk = Null)
          => \A p \in ParentIds : ~Targets(p)

\* The child row c points to parent p and is eligible.
Counted(c, p) == db[c].exists /\ db[c].fk = p /\ Eligible(db[c])

\* COUNT, or SUM of the source attribute, over the eligible children of p.
AggregateOf(p) ==
    SumUpTo([c \in ChildIds |->
                IF Counted(c, p)
                THEN (IF tracker.aggregate = "Count" THEN 1 ELSE db[c].points)
                ELSE 0], MaxChildId)

\* C1: after any sequence of child creates, updates and deletes, each
\* followed by applying the returned adjustments, every parent's tracked
\* field equals the aggregate over its current eligible children.
C1_FieldEqualsAggregate ==
    \A p \in ParentIds : value[p] = AggregateOf(p)

\* C7: for a SUM tracker whose children are always eligible, after any
\* sequence of creates, updates of the source attribute and deletes, the
\* parent's sum equals the sum of the source attribute over its children.
C7_SumEqualsChildrenSum ==
    tracker = [aggregate |-> "Sum", callback |-> "true"]
    => \A p \in ParentIds :
            value[p] = SumUpTo([c \in ChildIds |->
                                    IF db[c].exists /\ db[c].fk = p
                                    THEN db[c].points ELSE 0], MaxChildId)

\* Two creates and a save have left two children with different non-zero
\* values under one parent.
C7_Witness ==
    /\ tracker = [aggregate |-> "Sum", callback |-> "true"]
    /\ steps = 3
    /\ \E p \in ParentIds, c, d \in ChildIds :
        /\ c # d
        /\ db[c].exists /\ db[c].fk = p /\ db[c].points = MaxPoints
        /\ db[d].exists /\ db[d].fk = p /\ db[d].points = 1
        /\ value[p] = MaxPoints + 1

\* C6: for a COUNT tracker and a child with a fixed parent, saving the
\* child with its eligibility flipped and saving it again with the
\* eligibility flipped back leaves the parent's count at the value it had
\* before the two saves.
C6_ToggleTwiceRestoresCount ==
    steps = 2 => value = initial

\* Both saves done, the second one made an eligible child ineligible.
C6_Witness ==
    /\ steps = 2
    /\ last.called /\ last.event = "update"
    /\ last.prev.active /\ ~last.cur.active
    /\ \E k \in DOMAIN last.result.changes :
        last.result.changes[k].pk = last.cur.fk /\ last.result.changes[k].delta = -1
    /\ value[last.cur.fk] = initial[last.cur.fk]

AllDone == \A a \in Actors : Done(a)

\* Every child was created by its actor, eligible.
AllCreated ==
    \A a \in Actors : Counted(a, Shared)

\* C2: once every actor has applied its adjustments, each parent's field
\* is its initial value plus the sum of all emitted deltas, whatever the
\* interleaving and however stale the actors' copies were; concurrent
\* eligible creates on a parent with count c end at c + their number.
C2_NoLostIncrement ==
    AllDone =>
        /\ \A p \in ParentIds : value[p] = initial[p] + emitted[p]
        /\ (tracker.aggregate = "Count" /\ initial[Shared] = 0 /\ AllCreated)
            => value[Shared] = MaxChildId

\* Creates for the same parent by actors that all read the parent before
\* any of them wrote.
C2_Witness ==
    /\ AllDone
    /\ tracker.aggregate = "Count"
    /\ AllCreated
    /\ initial[Shared] = 0
    /\ \A a \in Actors : mem[a][Shared] = 0
    /\ value[Shared] = MaxChildId

\* C11: an update whose parent, eligibility and source attribute are the
\* same in the current state as in the snapshot returns no adjustment.
C11_UnchangedSaveEmitsNothing ==
    (Returned /\ last.event = "update" /\ ~last.cur.pending
        /\ last.cur.fk = last.prev.fk
        /\ last.cur.active = last.prev.active
        /\ last.cur.points = last.prev.points)
    => last.result.changes = <<>>

\* An eligible child with a non-zero source value saved untouched.
C11_Witness ==
    /\ last.called /\ last.event = "update"
    /\ tracker = [aggregate |-> "Sum", callback |-> "active"]
    /\ last.cur = last.prev
    /\ last.cur.active /\ last.cur.fk \in groups /\ last.cur.points = MaxPoints
    /\ last.result = Return(<<>>)

\* C12 as claimed: for every input the current in-memory state and the
\* snapshot are the same after the call as before it.
C12_CallLeavesInstancesUntouched ==
    last.called => last.after.cur = last.cur /\ last.after.prev = last.prev

\* C12 amended: the call leaves the snapshot as it was, and the current
\* state too, except that a SUM tracker replaces a source attribute holding
\* an unresolved expression by the stored value.
C12_CallOnlyReloadsExpression ==
    last.called =>
        /\ last.after.prev = last.prev
        /\ last.after.cur.fk = last.cur.fk
        /\ last.after.cur.active = last.cur.active
        /\ (tracker.aggregate = "Sum" /\ last.cur.pending)
            => (last.after.cur.points = last.stored /\ ~last.after.cur.pending)
        /\ ~(tracker.aggregate = "Sum" /\ last.cur.pending)
            => last.after.cur = last.cur

\* The expression was replaced by a stored value different from its operand.
C12_Witness ==
    /\ last.called /\ tracker.aggregate = "Sum"
    /\ last.cur.pending /\ last.stored # last.cur.points
    /\ last.after.cur.points = last.stored /\ ~last.after.cur.pending

\* C13: with an aggregate that is neither COUNT nor SUM every call, whatever
\* the event, eligibility and parent, ends in an error and returns nothing.
C13_UnsupportedAggregateAborts ==
    (last.called /\ ~Supported) => last.result = Raise("NotImplementedError")

C13_Witness ==
    /\ last.called /\ ~Supported
    /\ last.event = "create" /\ Eligible(last.cur) /\ last.cur.fk \in groups
    /\ last.result.error = "NotImplementedError" /\ last.result.changes = <<>>

\* eligible(current) - eligible(previous)
FlipSign ==
    (IF Eligible(last.cur) THEN 1 ELSE 0) - (IF Eligible(last.prev) THEN 1 ELSE 0)

\* C14: an update with an unchanged non-null parent whose eligibility
\* flipped returns exactly one adjustment against that parent, of
\* sign * delta(current), provided delta(current) is not zero.
C14_FlipEmitsSignedDelta ==
    (Returned /\ last.event = "update" /\ Supported
        /\ ParentOf(last.cur) = ParentOf(last.prev) /\ ParentOf(last.cur) # Null
        /\ FlipSign # 0 /\ DeltaOf(last.cur) # 0)
    => last.result.changes = <<Adjust(ParentOf(last.cur), FlipSign * DeltaOf(last.cur))>>

\* A child with the largest source value that ceased to be eligible.
C14_Witness ==
    /\ last.called /\ last.event = "update"
    /\ tracker = [aggregate |-> "Sum", callback |-> "active"]
    /\ last.prev.active /\ ~last.cur.active
    /\ last.cur.fk = last.prev.fk /\ last.cur.fk \in groups
    /\ ~last.cur.pending /\ last.cur.points = MaxPoints
    /\ last.result.changes = <<Adjust(last.cur.fk, -MaxPoints)>>

\* C15: an update with an unchanged parent and unchanged eligibility returns
\* at most one adjustment, against that parent, of delta(current) -
\* delta(previous); for COUNT the difference is 0 and nothing is returned.
C15_SameEligibilityEmitsDifference ==
    (Returned /\ last.event = "update" /\ Supported
        /\ ParentOf(last.cur) = ParentOf(last.prev) /\ FlipSign = 0)
    => /\ last.result.changes =
            IF ParentOf(last.cur) = Null \/ DeltaOf(last.cur) = DeltaOf(last.prev)
            THEN <<>>
            ELSE <<Adjust(ParentOf(last.cur), DeltaOf(last.cur) - DeltaOf(last.prev))>>
       /\ tracker.aggregate = "Count" => last.result.changes = <<>>

\* The source value of an eligible child raised from 1 to the largest value.
C15_Witness ==
    /\ last.called /\ last.event = "update"
    /\ tracker = [aggregate |-> "Sum", callback |-> "active"]
    /\ last.prev.active /\ last.cur.active
    /\ last.cur.fk = last.prev.fk /\ last.cur.fk \in groups
    /\ ~last.cur.pending /\ last.prev.points = 1 /\ last.cur.points = MaxPoints
    /\ last.result.changes = <<Adjust(last.cur.fk, MaxPoints - 1)>>

\* C16: a create or delete event whose current state is ineligible returns
\* no adjustment, whatever the snapshot attached to the instance holds.
C16_IneligibleCreateDeleteEmitsNothing ==
    (Returned /\ last.event \in {"create", "delete"} /\ Supported /\ ~Eligible(last.cur))
    => \A p \in ParentIds : ~Targets(p)

\* C17: a child ineligible before and after an update that keeps its parent
\* causes no adjustment, even when its SUM source attribute changed.
C17_UncountedChildNeverAdjusts ==
    (Returned /\ last.event = "update" /\ Supported
        /\ ~Eligible(last.cur) /\ ~Eligible(last.prev)
        /\ ParentOf(last.cur) = ParentOf(last.prev))
    => \A p \in ParentIds : ~Targets(p)

\* C18: for a SUM tracker and a source attribute that is an unresolved
\* expression, the delta is the value re-read from storage (an eligible
\* create returns it), and a save of "stored value + k", the storage then
\* holding the snapshot's value plus k, adjusts the parent by exactly k.
C18_ExpressionDeltaIsStoredValue ==
    (Returned /\ tracker.aggregate = "Sum" /\ last.cur.pending /\ last.cur.fk \in groups)
    => /\ (last.event = "create" /\ Eligible(last.cur) /\ last.stored # 0)
            => last.result.changes = <<Adjust(last.cur.fk, last.stored)>>
       /\ (last.event = "update" /\ last.cur.fk = last.prev.fk
            /\ last.cur.active = last.prev.active
            /\ last.stored = last.prev.points + last.cur.points)
            => last.result.changes =
                    IF last.cur.points = 0 THEN <<>>
                    ELSE <<Adjust(last.cur.fk, last.cur.points)>>

\* points = F('points') + 1 saved on a child that had 1.
C18_Witness ==
    /\ last.called /\ last.event = "update"
    /\ tracker = [aggregate |-> "Sum", callback |-> "active"]
    /\ last.cur.pending /\ last.cur.points = 1 /\ last.prev.points = 1 /\ last.stored = 2
    /\ last.cur.active /\ last.prev.active
    /\ last.cur.fk = last.prev.fk /\ last.cur.fk \in groups
    /\ last.result.changes = <<Adjust(last.cur.fk, 1)>>

\* The adjustments among the returned entries.
Adjustments == SelectSeq(last.result.changes, LAMBDA e : ~e.none)

\* C19: a call returns at most two adjustments; two only for an update
\* whose parent changed, the first decreasing the old parent and the second
\* increasing the new one, two distinct parents.
C19_AtMostTwoDistinctParents ==
    Returned =>
        /\ Len(Adjustments) <= 2
        /\ Len(Adjustments) = 2 =>
            /\ last.event = "update"
            /\ ParentOf(last.cur) # ParentOf(last.prev)
            /\ Adjustments[1].pk = ParentOf(last.prev) /\ Adjustments[1].delta < 0
            /\ Adjustments[2].pk = ParentOf(last.cur) /\ Adjustments[2].delta > 0
            /\ Adjustments[1].pk # Adjustments[2].pk

====
